---- MODULE Spec2Model ----
(***************************************************************************)
(* Model of the Kazan business-events pipeline (main.py): scraping two     *)
(* sources, cross-source deduplication by title similarity, the ledger of  *)
(* processed URLs (processed_events.json), the event store                 *)
(* (events_db.json), classification by a list of fallback models and       *)
(* publication to the Telegram channel.                                    *)
(***************************************************************************)
EXTENDS Integers, Sequences, FiniteSets, TLC

(***************************************************************************)
(* Bounds of the model.                                                    *)
(***************************************************************************)
\* number of distinct event URLs the two sites can list
NumUrls == 2
\* largest number of candidates the two scrapers return together in a run
MaxEvents == 2
\* number of pipeline runs (process starts) explored
MaxRuns == 2
\* how far from the message limit the lengths of the post texts go
LenMargin == 8
\* longest title is_similar is called on
MaxTitleLen == 2
\* largest number of records of the stores the digest is run on with any
\* URLs and dates
MaxStore == 2

URLs == 1..NumUrls

(***************************************************************************)
(* Titles are sequences of characters.                                     *)
(***************************************************************************)
TitleMeetup == <<"M", "e", "e", "t", "u", "p">>
TitleMeetups == <<"m", "e", "e", "t", "u", "p", "s">>
TitleMeet == <<"M", "e", "e", "t">>

Sources == {"timepad", "gorodzovet"}

\* the titles each site lists
TitlesOf(src) ==
    IF src = "timepad" THEN {TitleMeetup, TitleMeet} ELSE {TitleMeetups, TitleMeet}

\* str.lower() on the characters that occur in the titles
Lower(c) == IF c = "M" THEN "m" ELSE c

lower(s) == [i \in 1..Len(s) |-> Lower(s[i])]

(***************************************************************************)
(* difflib.SequenceMatcher(None, a, b).ratio(): the matching blocks of     *)
(* Ratcliff/Obershelp (longest common block, earliest in a, then earliest  *)
(* in b; then the same to the left and to the right of it).  Ranges are    *)
(* half open, alo..ahi-1, as in difflib; no junk (isjunk is None and the   *)
(* autojunk heuristic needs 200 characters).                               *)
(***************************************************************************)
Min2(x, y) == IF x < y THEN x ELSE y

MatchingBlocksAt(a, b, alo, ahi, blo, bhi) ==
    {m \in (alo..(ahi - 1)) \X (blo..(bhi - 1)) \X (1..Min2(ahi - alo, bhi - blo)) :
        /\ m[1] + m[3] <= ahi
        /\ m[2] + m[3] <= bhi
        /\ \A d \in 0..(m[3] - 1) : a[m[1] + d] = b[m[2] + d]}

find_longest_match(a, b, alo, ahi, blo, bhi) ==
    LET S == MatchingBlocksAt(a, b, alo, ahi, blo, bhi)
    IN  IF S = {} THEN <<alo, blo, 0>>
        ELSE CHOOSE m \in S : \A n \in S :
                \/ m[3] > n[3]
                \/ /\ m[3] = n[3]
                   /\ \/ m[1] < n[1]
                      \/ m[1] = n[1] /\ m[2] <= n[2]

RECURSIVE matches(_, _, _, _, _, _)
matches(a, b, alo, ahi, blo, bhi) ==
    LET m == find_longest_match(a, b, alo, ahi, blo, bhi)
        i == m[1]
        j == m[2]
        k == m[3]
    IN  IF k = 0 THEN 0
        ELSE k
             + (IF alo < i /\ blo < j THEN matches(a, b, alo, i, blo, j) ELSE 0)
             + (IF i + k < ahi /\ j + k < bhi
                THEN matches(a, b, i + k, ahi, j + k, bhi) ELSE 0)

\* 0.85, the default threshold of is_similar, in hundredths
DefaultThreshold == 85

\* a ratio that is 0 when both titles are empty
is_similar_empty_unlike(title1, title2, threshold) ==
    LET a == lower(title1)  b == lower(title2)
        length == Len(a) + Len(b)
        M == matches(a, b, 1, Len(a) + 1, 1, Len(b) + 1)
    IN  IF length = 0 THEN 0 > threshold
        ELSE 2 * M * 100 > threshold * length

\* ratio() > threshold, with ratio() = 2.0 * matches / length and 1.0 when
\* both strings are empty; threshold is given in hundredths
is_similar(title1, title2, threshold) ==
    LET a == lower(title1)
        b == lower(title2)
        length == Len(a) + Len(b)
        M == matches(a, b, 1, Len(a) + 1, 1, Len(b) + 1)
    IN  IF length = 0 THEN 100 > threshold
        ELSE 2 * M * 100 > threshold * length


(***************************************************************************)
(* Values exchanged with the collaborators.                                *)
(***************************************************************************)
\* a text is known by its length and by whether it ends with "..."
EmptyText == [len |-> 0, dots |-> FALSE]
ShortText == [len |-> 10, dots |-> FALSE]
LongText == [len |-> 5000, dots |-> FALSE]

\* a value of the 'date' field of a stored event (the event_date of the
\* annotator's answer, line 378): null, a string, given by the month and the
\* day it spells after "2026-", or a JSON value that is no string (a number)
DateString(month, day) == [kind |-> "str", month |-> month, day |-> day]
NoDate == [kind |-> "null", month |-> 0, day |-> 0]
SomeDate == DateString(11, 4)
\* a string that spells no date
GarbledDate == DateString(0, 0)
NumberDate == [kind |-> "number", month |-> 0, day |-> 0]

\* what generate_post_content can return: None, a JSON value that is falsy
\* ({} [] 0 "" null false), a truthy JSON value that is no object (a list,
\* a string, a number), or an object.  In an object, action "OTHER" stands
\* for a missing key or any value but IGNORE and POST, and the empty
\* post_text for a missing, null or empty one; a post_text is a string.
Response(kind, action, post_text, event_date) ==
    [kind |-> kind, action |-> action, post_text |-> post_text, event_date |-> event_date]

None == Response("none", "OTHER", EmptyText, NoDate)
FalsyJson == Response("falsy", "OTHER", EmptyText, NoDate)
NonDictJson == Response("nondict", "OTHER", EmptyText, NoDate)

DictResponses ==
    { Response("dict", "IGNORE", EmptyText, NoDate),
      Response("dict", "POST", EmptyText, NoDate),
      Response("dict", "POST", ShortText, NoDate),
      Response("dict", "POST", LongText, SomeDate),
      Response("dict", "OTHER", ShortText, NoDate) }

ParsedResponses == DictResponses \cup {FalsyJson, NonDictJson}

\* what one model of models_to_try can do: the call raises, the text it
\* returns makes json.loads raise, or the text parses
ModelRaises == Response("raise", "OTHER", EmptyText, NoDate)
Unparseable == Response("unparseable", "OTHER", EmptyText, NoDate)
ModelAnswers == {ModelRaises, Unparseable} \cup ParsedResponses

\* models_to_try has three entries
NumModels == 3

Candidates(src) == [url : URLs, title : TitlesOf(src), source : {src}]

\* what a scraper can return: candidates with pairwise distinct URLs
\* (seen_links), in page order
ScrapeResults(src) ==
    {s \in UNION {[1..n -> Candidates(src)] : n \in 0..MaxEvents} :
        \A i, j \in DOMAIN s : i # j => s[i].url # s[j].url}

NoCandidate == [url |-> 0, title |-> <<>>, source |-> "none"]

VARIABLES
    TELEGRAM_TOKEN,     \* whether the environment sets it
    CHANNEL_ID,         \* whether the environment sets it
    GEMINI_API_KEY,     \* whether the environment sets it
    processed_file,     \* processed_events.json: the persisted ledger
    events_db,          \* events_db.json: the event store
    pc,                 \* position of the run in main()
    processed_events,   \* the ledger in memory
    tp_events,
    gz_events,
    final_events,       \* the work list
    idx,                \* position of the loop over final_events
    full_text,          \* event['full_text']
    model_i,            \* position of the loop over models_to_try (0: not in it)
    ai_response,
    content,            \* the text handed to bot.send_message
    runs,               \* number of runs started
    loaded,             \* the ledger as load_processed_events returned it
    scraped,            \* the sources scraped in this run
    fetched,            \* URLs whose page was requested in this run
    annotated,          \* URLs handed to the annotator in this run
    published,          \* URLs for which bot.send_message was called in this run
    sent,               \* per URL, the number of successful send_message calls
    ignored,            \* per URL, the run of its last Ignore verdict (0: none)
    send_failed,        \* per URL, the run of its last failed send_message (0: none)
    similarity,         \* a call of is_similar: its arguments and what it returned
    today,              \* digest.py: datetime.now().date(), as a day number
    digest_pc,          \* digest.py: position of the digest job in main()
    week_events,        \* digest.py: the events the digest lists
    message,            \* digest.py: the lines of the text handed to bot.send_message
    digest_calls        \* digest.py: number of bot.send_message calls of the job

vars == <<TELEGRAM_TOKEN, CHANNEL_ID, GEMINI_API_KEY, processed_file, events_db, pc,
          processed_events, tp_events, gz_events, final_events, idx, full_text,
          model_i, ai_response, content, runs, loaded, scraped, fetched,
          annotated, published, sent, ignored, send_failed,
          similarity, today, digest_pc, week_events, message, digest_calls>>

\* the state of the pipeline run (main.py)
pipeline == <<TELEGRAM_TOKEN, CHANNEL_ID, GEMINI_API_KEY, processed_file, events_db,
              pc, processed_events, tp_events, gz_events, final_events, idx,
              full_text, model_i, ai_response, content, runs, loaded, scraped,
              fetched, annotated, published, sent, ignored, send_failed>>

\* the state of the digest job (digest.py)
digest == <<today, digest_pc, week_events, message, digest_calls>>

\* what a pipeline run leaves alone
others == <<similarity, digest>>

env == <<TELEGRAM_TOKEN, CHANNEL_ID, GEMINI_API_KEY>>
files == <<processed_file, events_db>>
lists == <<tp_events, gz_events, final_events>>
item == <<full_text, model_i, ai_response, content>>
calls == <<fetched, annotated, published>>
history == <<sent, ignored, send_failed>>

InitMain ==
    /\ TELEGRAM_TOKEN = FALSE
    /\ CHANNEL_ID = FALSE
    /\ GEMINI_API_KEY = FALSE
    /\ processed_file = {}
    /\ events_db = <<>>
    /\ pc = "idle"
    /\ processed_events = {}
    /\ tp_events = <<>>
    /\ gz_events = <<>>
    /\ final_events = <<>>
    /\ idx = 0
    /\ full_text = ""
    /\ model_i = 0
    /\ ai_response = None
    /\ content = EmptyText
    /\ runs = 0
    /\ loaded = {}
    /\ scraped = {}
    /\ fetched = {}
    /\ annotated = {}
    /\ published = {}
    /\ sent = [u \in URLs |-> 0]
    /\ ignored = [u \in URLs |-> 0]
    /\ send_failed = [u \in URLs |-> 0]

\* no call of is_similar outside main()
NoCall == [title1 |-> <<>>, title2 |-> <<>>, threshold |-> DefaultThreshold,
           called |-> FALSE, result |-> FALSE]

InitSimilarity == similarity = NoCall

\* the digest job is not running
InitDigest ==
    /\ today = 0
    /\ digest_pc = "idle"
    /\ week_events = <<>>
    /\ message = <<>>
    /\ digest_calls = 0

Init == InitMain /\ InitSimilarity /\ InitDigest


(***************************************************************************)
(* The two persisted files.                                                *)
(***************************************************************************)
\* a load that always starts from an empty ledger
load_processed_events_empty(file) == {}

load_processed_events(file) == file

save_processed_events(ledger) == ledger

\* a save that appends without looking for the URL
save_event_to_db_appends(file, event_data) == Append(file, event_data)

\* the file after save_event_to_db(event_data) returned normally
save_event_to_db(file, event_data) ==
    IF \E i \in DOMAIN file : file[i].url = event_data.url
    THEN file
    ELSE Append(file, event_data)

StoredUrls(file) == {file[i].url : i \in DOMAIN file}

(***************************************************************************)
(* Aggregation, main() lines 306-328.                                      *)
(***************************************************************************)
\* the Timepad loop without the ledger test of line 311
new_timepad_unchecked(tp, processed) == tp

new_timepad(tp, processed) == SelectSeq(tp, LAMBDA e : e.url \notin processed)

\* the comparison made with the new Timepad events only
is_duplicate_new_only(gz, tp) ==
    \E i \in DOMAIN tp :
        /\ tp[i].url \notin loaded
        /\ is_similar(gz.title, tp[i].title, DefaultThreshold)

is_duplicate(gz, tp) ==
    \E i \in DOMAIN tp : is_similar(gz.title, tp[i].title, DefaultThreshold)

RECURSIVE add_gorodzovet(_, _, _, _, _)
add_gorodzovet(gz, tp, i, final, processed) ==
    IF i > Len(gz) THEN [final_events |-> final, processed_events |-> processed]
    ELSE IF gz[i].url \in processed
         THEN add_gorodzovet(gz, tp, i + 1, final, processed)
    ELSE IF is_duplicate(gz[i], tp)
         THEN add_gorodzovet(gz, tp, i + 1, final, processed \cup {gz[i].url})
    ELSE add_gorodzovet(gz, tp, i + 1, Append(final, gz[i]), processed)

\* a work list with the GorodZovet events ahead of the Timepad events
aggregate_gorodzovet_first(tp, gz, processed) ==
    LET r == add_gorodzovet(gz, tp, 1, <<>>, processed)
    IN  [final_events |-> r.final_events \o new_timepad(tp, processed),
         processed_events |-> r.processed_events]

aggregate(tp, gz, processed) ==
    add_gorodzovet(gz, tp, 1, new_timepad(tp, processed), processed)

\* the 4096-character limit of a Telegram message and the 4093 kept
MaxMessage == 4096
KeptPrefix == 4093

\* a cut that keeps MaxMessage characters before the marker
truncate_keeps_limit(text) ==
    IF text.len > MaxMessage
    THEN [len |-> Min2(text.len, MaxMessage) + 3, dots |-> TRUE]
    ELSE text

\* content[:4093] + "..." when len(content) > 4096
truncate(text) ==
    IF text.len > MaxMessage
    THEN [len |-> Min2(text.len, KeptPrefix) + 3, dots |-> TRUE]
    ELSE text

(***************************************************************************)
(* The run: main().                                                        *)
(***************************************************************************)
event == IF idx \in DOMAIN final_events THEN final_events[idx] ELSE NoCandidate

ResetItem ==
    /\ full_text' = ""
    /\ model_i' = 0
    /\ ai_response' = None
    /\ content' = EmptyText

\* the process exits: nothing of its memory and of its environment is left
EndRun ==
    /\ pc' = "idle"
    /\ TELEGRAM_TOKEN' = FALSE
    /\ CHANNEL_ID' = FALSE
    /\ GEMINI_API_KEY' = FALSE
    /\ processed_events' = {}
    /\ tp_events' = <<>>
    /\ gz_events' = <<>>
    /\ final_events' = <<>>
    /\ idx' = 0
    /\ ResetItem
    /\ loaded' = {}
    /\ scraped' = {}
    /\ fetched' = {}
    /\ annotated' = {}
    /\ published' = {}

\* the loop over final_events goes on with the next event, or ends
NextEvent ==
    /\ idx' = idx + 1
    /\ pc' = IF idx < Len(final_events) THEN "fetch" ELSE "persist"
    /\ ResetItem

\* lines 289-293: the process starts, reads its environment and loads the ledger
StartRun ==
    /\ pc = "idle"
    /\ runs < MaxRuns
    /\ runs' = runs + 1
    /\ \E token \in BOOLEAN, channel \in BOOLEAN, key \in BOOLEAN :
        /\ TELEGRAM_TOKEN' = token
        /\ CHANNEL_ID' = channel
        /\ GEMINI_API_KEY' = key
        /\ IF ~token \/ ~channel
           THEN UNCHANGED <<pc, processed_events, loaded>>
           ELSE /\ pc' = "scrape"
                /\ processed_events' = load_processed_events(processed_file)
                /\ loaded' = load_processed_events(processed_file)
    /\ UNCHANGED <<files, lists, idx, item, scraped, calls, history>>
    /\ UNCHANGED others

\* line 298: create_driver raises; the handler of line 394 ends the run
DriverFails ==
    /\ pc = "scrape"
    /\ EndRun
    /\ UNCHANGED <<files, runs, history>>
    /\ UNCHANGED others

\* lines 301-304: both scrapers return (their own errors leave a shorter list)
Scrape ==
    /\ pc = "scrape"
    /\ \E tp \in ScrapeResults("timepad"), gz \in ScrapeResults("gorodzovet") :
        /\ Len(tp) + Len(gz) <= MaxEvents
        /\ tp_events' = tp
        /\ gz_events' = gz
    /\ scraped' = Sources
    /\ pc' = "aggregate"
    /\ UNCHANGED <<env, files, processed_events, final_events, idx, item, runs,
                   loaded, calls, history>>
    /\ UNCHANGED others

\* lines 306-330
Aggregate ==
    /\ pc = "aggregate"
    /\ LET r == aggregate(tp_events, gz_events, processed_events)
       IN  /\ final_events' = r.final_events
           /\ processed_events' = r.processed_events
           /\ pc' = IF r.final_events = <<>> THEN "persist" ELSE "fetch"
    /\ idx' = 1
    /\ UNCHANGED <<env, files, tp_events, gz_events, item, runs, loaded,
                   scraped, calls, history>>
    /\ UNCHANGED others

\* lines 338-353: the page is fetched, or the fetch fails and the text is empty
Fetch ==
    /\ pc = "fetch"
    /\ fetched' = fetched \cup {event.url}
    /\ \E ok \in BOOLEAN : full_text' = IF ok THEN "page" ELSE ""
    /\ model_i' = 1
    /\ pc' = "annotate"
    /\ UNCHANGED <<env, files, processed_events, lists, idx, ai_response, content,
                   runs, loaded, scraped, annotated, published, history>>
    /\ UNCHANGED others

\* line 235: generate_post_content without an API key
GenerateNoKey ==
    /\ pc = "annotate"
    /\ ~GEMINI_API_KEY
    /\ annotated' = annotated \cup {event.url}
    /\ ai_response' = None
    /\ model_i' = 0
    /\ pc' = "decide"
    /\ UNCHANGED <<env, files, processed_events, lists, idx, full_text,
                   content, runs, loaded, scraped, fetched, published, history>>
    /\ UNCHANGED others

\* what the loop of lines 265-274 does with one model's answer
after_model(i, answer) ==
    IF answer.kind \in {"raise", "unparseable"}
    THEN IF i < NumModels
         THEN [pc |-> "annotate", model_i |-> i + 1, ai_response |-> None]
         ELSE [pc |-> "decide", model_i |-> 0, ai_response |-> None]
    ELSE [pc |-> "decide", model_i |-> 0, ai_response |-> answer]

\* lines 265-286: one model of models_to_try is asked
TryModel ==
    /\ pc = "annotate"
    /\ GEMINI_API_KEY
    /\ annotated' = annotated \cup {event.url}
    /\ \E answer \in ModelAnswers :
        LET r == after_model(model_i, answer)
        IN  /\ pc' = r.pc
            /\ model_i' = r.model_i
            /\ ai_response' = r.ai_response
    /\ UNCHANGED <<env, files, processed_events, lists, idx, full_text, content,
                   runs, loaded, scraped, fetched, published, history>>
    /\ UNCHANGED others

\* an annotator failure taken for an Ignore
verdict_none_ignored(response) ==
    IF response.kind = "falsy" THEN "skip"
    ELSE IF response.kind = "none" THEN "ignore"
    ELSE IF response.kind = "nondict" THEN "raise"
    ELSE IF response.action = "IGNORE" THEN "ignore"
    ELSE IF response.post_text.len = 0 THEN "skip"
    ELSE "send"

\* lines 357-367: what main() does with the answer
\* "skip": continue; "raise": .get on a value that is no dict raises
verdict(response) ==
    IF response.kind \in {"none", "falsy"} THEN "skip"
    ELSE IF response.kind = "nondict" THEN "raise"
    ELSE IF response.action = "IGNORE" THEN "ignore"
    ELSE IF response.post_text.len = 0 THEN "skip"
    ELSE "send"

Decide ==
    /\ pc = "decide"
    /\ LET v == verdict(ai_response)
       IN  \/ /\ v = "skip"
              /\ NextEvent
              /\ UNCHANGED <<env, processed_events, lists, loaded, scraped, calls,
                             history>>
           \/ /\ v = "raise"
              /\ EndRun
              /\ UNCHANGED history
           \/ /\ v = "ignore"
              /\ processed_events' = processed_events \cup {event.url}
              /\ ignored' = [ignored EXCEPT ![event.url] = runs]
              /\ NextEvent
              /\ UNCHANGED <<env, lists, loaded, scraped, calls, sent, send_failed>>
           \/ /\ v = "send"
              /\ content' = ai_response.post_text
              /\ pc' = "send"
              /\ UNCHANGED <<env, processed_events, lists, idx, full_text, model_i,
                             ai_response, loaded, scraped, calls, history>>
    /\ UNCHANGED <<files, runs>>
    /\ UNCHANGED others

\* a failed send that marks the URL as processed
Send_failure_marks_processed ==
    /\ pc = "send"
    /\ published' = published \cup {event.url}
    /\ \/ /\ content' = truncate(content)
          /\ sent' = [sent EXCEPT ![event.url] = @ + 1]
          /\ pc' = "save"
          /\ UNCHANGED <<idx, full_text, model_i, ai_response, send_failed,
                         processed_events>>
       \/ /\ send_failed' = [send_failed EXCEPT ![event.url] = runs]
          /\ processed_events' = processed_events \cup {event.url}
          /\ NextEvent
          /\ UNCHANGED sent
    /\ UNCHANGED <<env, files, lists, runs, loaded,
                   scraped, fetched, annotated, ignored>>
    /\ UNCHANGED others

\* lines 370-371 and 388: the text is cut and bot.send_message is called
Send ==
    /\ pc = "send"
    /\ published' = published \cup {event.url}
    /\ \/ /\ content' = truncate(content)
          /\ sent' = [sent EXCEPT ![event.url] = @ + 1]
          /\ pc' = "save"
          /\ UNCHANGED <<idx, full_text, model_i, ai_response, send_failed>>
       \/ /\ send_failed' = [send_failed EXCEPT ![event.url] = runs]
          /\ NextEvent
          /\ UNCHANGED sent
    /\ UNCHANGED <<env, files, processed_events, lists, runs, loaded,
                   scraped, fetched, annotated, ignored>>
    /\ UNCHANGED others

event_record ==
    [url |-> event.url, title |-> event.title, date |-> ai_response.event_date,
     source |-> event.source, created_at |-> runs, post_text |-> content]

\* lines 375-388: the record is stored and the URL enters the ledger, or the
\* write of events_db.json raises and the handler of line 388 goes on
SaveEvent ==
    /\ pc = "save"
    /\ \/ /\ events_db' = save_event_to_db(events_db, event_record)
          /\ processed_events' = processed_events \cup {event.url}
       \/ /\ event.url \notin StoredUrls(events_db)
          /\ UNCHANGED <<events_db, processed_events>>
    /\ NextEvent
    /\ UNCHANGED <<env, processed_file, lists, runs, loaded, scraped,
                   calls, history>>
    /\ UNCHANGED others

\* line 391
Persist ==
    /\ pc = "persist"
    /\ processed_file' = save_processed_events(processed_events)
    /\ EndRun
    /\ UNCHANGED <<events_db, runs, history>>
    /\ UNCHANGED others

\* the process is killed
Interrupt ==
    /\ pc # "idle"
    /\ EndRun
    /\ UNCHANGED <<files, runs, history>>
    /\ UNCHANGED others

Next ==
    \/ StartRun
    \/ DriverFails
    \/ Scrape
    \/ Aggregate
    \/ Fetch
    \/ GenerateNoKey
    \/ TryModel
    \/ Decide
    \/ Send
    \/ SaveEvent
    \/ Persist

Spec == Init /\ [][Next]_vars

SpecKill == Init /\ [][Next \/ Interrupt]_vars

(***************************************************************************)
(* Runs without end.  A run leaves nothing but the two files to the run    *)
(* after it (lines 53-60 and 66-84): the counters that observe the runs    *)
(* can start again between two runs.  The environment is one in which      *)
(* every run gets as far as the work list: the Telegram credentials are    *)
(* set, the driver starts, every URL is listed by a source in every run    *)
(* under the one title of its source, and the first model asked answers    *)
(* with a POST or an IGNORE verdict or with a JSON value that is no object.*)
(***************************************************************************)
Forget ==
    /\ pc = "idle"
    /\ runs >= 1
    /\ runs' = 0
    /\ sent' = [u \in URLs |-> 0]
    /\ ignored' = [u \in URLs |-> 0]
    /\ send_failed' = [u \in URLs |-> 0]
    /\ UNCHANGED <<pc, env, files, processed_events, lists, idx, item, loaded,
                   scraped, calls, others>>

Steady ==
    /\ \A i \in DOMAIN tp_events : tp_events[i].title = TitleMeet
    /\ \A i \in DOMAIN gz_events : gz_events[i].title = TitleMeetups
    /\ ai_response \in {None, NonDictJson,
                        Response("dict", "POST", ShortText, NoDate),
                        Response("dict", "IGNORE", EmptyText, NoDate)}
    /\ model_i <= 1
    /\ pc \notin {"idle", "scrape"} =>
            \A u \in URLs :
                \/ \E i \in DOMAIN tp_events : tp_events[i].url = u
                \/ \E i \in DOMAIN gz_events : gz_events[i].url = u

NextForever ==
    \/ StartRun /\ pc' = "scrape" /\ Steady'
    \/ Scrape /\ Steady'
    \/ Aggregate /\ Steady'
    \/ Fetch /\ Steady'
    \/ GenerateNoKey /\ Steady'
    \/ TryModel /\ Steady'
    \/ Decide /\ Steady'
    \/ Send /\ Steady'
    \/ SaveEvent /\ Steady'
    \/ Persist /\ Steady'
    \/ Forget

\* a process that has started goes on until it exits, and the scheduler
\* goes on starting runs
SpecForever == Init /\ [][NextForever]_vars /\ WF_vars(NextForever)

(***************************************************************************)
(* The publication of one event for post texts of every length around the  *)
(* limit of line 370: the run is at line 364 with a POST answer.           *)
(***************************************************************************)
\* post texts of the lengths around 4096, ending with "..." or not
TextsAroundLimit ==
    [len : (MaxMessage - LenMargin)..(MaxMessage + LenMargin), dots : BOOLEAN]

InitTruncate ==
    /\ TELEGRAM_TOKEN = TRUE
    /\ CHANNEL_ID = TRUE
    /\ GEMINI_API_KEY = TRUE
    /\ processed_file = {}
    /\ events_db = <<>>
    /\ pc = "decide"
    /\ processed_events = {}
    /\ \E c \in Candidates("timepad") :
        /\ tp_events = <<c>>
        /\ final_events = <<c>>
        /\ fetched = {c.url}
        /\ annotated = {c.url}
    /\ gz_events = <<>>
    /\ idx = 1
    /\ full_text = "page"
    /\ model_i = 0
    /\ \E text \in TextsAroundLimit :
        ai_response = Response("dict", "POST", text, NoDate)
    /\ content = EmptyText
    /\ runs = 1
    /\ loaded = {}
    /\ scraped = Sources
    /\ published = {}
    /\ sent = [u \in URLs |-> 0]
    /\ ignored = [u \in URLs |-> 0]
    /\ send_failed = [u \in URLs |-> 0]
    /\ InitSimilarity
    /\ InitDigest

NextTruncate ==
    \/ Decide
    \/ Send
    \/ SaveEvent
    \/ Persist

SpecTruncate == InitTruncate /\ [][NextTruncate]_vars

(***************************************************************************)
(* is_similar (lines 86-88) called on any two titles at any threshold.     *)
(***************************************************************************)
\* titles of MaxTitleLen characters at most, in both cases
SimilarChars == {"M", "m", "e"}
SimilarTitles == UNION {[1..n -> SimilarChars] : n \in 0..MaxTitleLen}

\* thresholds in hundredths, the default and the ends of the range of a ratio
Thresholds == {0, 50, DefaultThreshold, 99, 100, 101}

InitSimilar ==
    /\ InitMain
    /\ InitDigest
    /\ \E t1 \in SimilarTitles, t2 \in SimilarTitles, t \in Thresholds :
        similarity = [title1 |-> t1, title2 |-> t2, threshold |-> t,
                      called |-> FALSE, result |-> FALSE]

CallSimilar ==
    /\ ~similarity.called
    /\ similarity' = [similarity EXCEPT
            !.called = TRUE,
            !.result = is_similar(similarity.title1, similarity.title2,
                                  similarity.threshold)]
    /\ UNCHANGED <<pipeline, digest>>

SpecSimilar == InitSimilar /\ [][CallSimilar]_vars

(***************************************************************************)
(* The weekly digest (digest.py).                                          *)
(***************************************************************************)
\* the calendar of 2026
DaysInMonth(month) ==
    IF month = 2 THEN 28
    ELSE IF month \in {4, 6, 9, 11} THEN 30
    ELSE 31

RECURSIVE DaysBefore(_)
DaysBefore(month) ==
    IF month = 1 THEN 0 ELSE DaysBefore(month - 1) + DaysInMonth(month - 1)

\* date(2025, 12, 31).toordinal()
LastDayOf2025 == 739616

\* a date object is its day number
toordinal(month, day) == LastDayOf2025 + DaysBefore(month) + day

\* date.weekday(): 0 is Monday
weekday(date_obj) == (date_obj + 6) % 7

\* datetime.strptime(s, "%Y-%m-%d").date(): the date, or what it raises
strptime(date) ==
    IF date.kind # "str"
    THEN [raises |-> "TypeError", date |-> 0]
    ELSE IF date.month \notin 1..12 \/ date.day \notin 1..DaysInMonth(date.month)
    THEN [raises |-> "ValueError", date |-> 0]
    ELSE [raises |-> "none", date |-> toordinal(date.month, date.day)]

\* lines 24-26: strftime("%d.%m")
format_date_short(date_obj) ==
    CHOOSE s \in [day : 1..31, month : 1..12] :
        /\ s.day <= DaysInMonth(s.month)
        /\ toordinal(s.month, s.day) = date_obj

\* lines 17-22
get_week_dates(now) ==
    [today |-> now,
     start_of_week |-> now - weekday(now),
     end_of_week |-> now - weekday(now) + 6]

\* line 68: event['date_obj'] = event_date
with_date_obj(e, event_date) ==
    [url |-> e.url, title |-> e.title, date |-> e.date, source |-> e.source,
     created_at |-> e.created_at, post_text |-> e.post_text,
     date_obj |-> event_date]

\* lines 58-70, from events[i] on: the events of the week found, and whether
\* the loop was left by an exception that line 63 does not catch
RECURSIVE filter_week(_, _, _, _, _)
filter_week(events, i, start_week, end_week, found) ==
    IF i > Len(events) THEN [raised |-> FALSE, week_events |-> found]
    ELSE LET e == events[i]
             parsed == strptime(e.date)
         IN  IF e.date.kind = "null"
             THEN filter_week(events, i + 1, start_week, end_week, found)
             ELSE IF parsed.raises = "TypeError"
             THEN [raised |-> TRUE, week_events |-> found]
             ELSE IF parsed.raises = "ValueError"
             THEN filter_week(events, i + 1, start_week, end_week, found)
             ELSE IF /\ start_week <= parsed.date
                     /\ parsed.date <= end_week
                     /\ \A j \in DOMAIN found : found[j].url # e.url
             THEN filter_week(events, i + 1, start_week, end_week,
                              Append(found, with_date_obj(e, parsed.date)))
             ELSE filter_week(events, i + 1, start_week, end_week, found)

\* list.sort is stable: x goes behind the elements whose date is not later
insert_by_date(sorted, x) ==
    LET k == Cardinality({j \in DOMAIN sorted : sorted[j].date_obj <= x.date_obj})
    IN  SubSeq(sorted, 1, k) \o <<x>> \o SubSeq(sorted, k + 1, Len(sorted))

\* line 77
RECURSIVE sort_by_date(_)
sort_by_date(list) ==
    IF list = <<>> THEN <<>>
    ELSE insert_by_date(sort_by_date(SubSeq(list, 1, Len(list) - 1)),
                        list[Len(list)])

\* line 82: week_events[:10]
TopEvents == 10
top(list) == SubSeq(list, 1, Min2(Len(list), TopEvents))

\* lines 93-101: the lines of the events in the message
message_lines(list) ==
    [i \in DOMAIN list |->
        [idx |-> i, url |-> list[i].url, title |-> list[i].title,
         day_name |-> weekday(list[i].date_obj),
         date_str |-> format_date_short(list[i].date_obj)]]

\* a record of events_db.json, as line 375 of main.py writes it
StoredEvent(url, date) ==
    [url |-> url, title |-> TitleMeetup, date |-> date, source |-> "timepad",
     created_at |-> 1, post_text |-> ShortText]

\* dates of stored events: none, no date, no string, the 31st of November,
\* and days of the weeks from Monday 26 October to Monday 9 November
DigestDates ==
    {NoDate, GarbledDate, NumberDate, DateString(11, 31), DateString(10, 25),
     DateString(10, 26), DateString(11, 1), DateString(11, 2), SomeDate,
     DateString(11, 8), DateString(11, 9)}

\* the days the job runs on: a Wednesday, a Monday and a Sunday
Todays == {toordinal(10, 28), toordinal(11, 2), toordinal(11, 8)}

\* any store of MaxStore records at most
SmallStores ==
    UNION {[1..n -> {StoredEvent(u, d) : u \in URLs, d \in DigestDates}] :
              n \in 0..MaxStore}

\* stores of more than TopEvents records with distinct URLs: the records of
\* late are dated Monday 9 November, the others the days from 2 to 8
\* November in an order that is not the order of the dates
LongStores ==
    {[i \in 1..(TopEvents + 2) |->
        StoredEvent(i, IF i \in late THEN DateString(11, 9)
                       ELSE DateString(11, 2 + ((5 * i) % 7)))] :
        late \in SUBSET (1..(TopEvents + 2))}

\* the job starts: its environment, the store and the day are any
InitDigestJob ==
    /\ GEMINI_API_KEY = FALSE
    /\ processed_file = {}
    /\ pc = "idle"
    /\ processed_events = {}
    /\ tp_events = <<>>
    /\ gz_events = <<>>
    /\ final_events = <<>>
    /\ idx = 0
    /\ full_text = ""
    /\ model_i = 0
    /\ ai_response = None
    /\ content = EmptyText
    /\ runs = 0
    /\ loaded = {}
    /\ scraped = {}
    /\ fetched = {}
    /\ annotated = {}
    /\ published = {}
    /\ sent = [u \in URLs |-> 0]
    /\ ignored = [u \in URLs |-> 0]
    /\ send_failed = [u \in URLs |-> 0]
    /\ InitSimilarity
    /\ \/ /\ TELEGRAM_TOKEN \in BOOLEAN
          /\ CHANNEL_ID \in BOOLEAN
          /\ events_db \in SmallStores
       \/ /\ TELEGRAM_TOKEN = TRUE
          /\ CHANNEL_ID = TRUE
          /\ events_db \in LongStores
    /\ today \in Todays
    /\ digest_pc = "start"
    /\ week_events = <<>>
    /\ message = <<>>
    /\ digest_calls = 0

\* lines 33-101: the credentials are looked at, the store is read, the events
\* of the week are picked, sorted and cut, and the message is built
DigestCollect ==
    /\ digest_pc = "start"
    /\ LET week == get_week_dates(today)
           r == filter_week(events_db, 1, week.start_of_week, week.end_of_week, <<>>)
       IN  IF ~TELEGRAM_TOKEN \/ ~CHANNEL_ID
           THEN /\ digest_pc' = "no_credentials"
                /\ UNCHANGED <<week_events, message>>
           ELSE IF r.raised
           THEN /\ digest_pc' = "crashed"
                /\ UNCHANGED <<week_events, message>>
           ELSE IF r.week_events = <<>>
           THEN /\ digest_pc' = "no_events"
                /\ UNCHANGED <<week_events, message>>
           ELSE /\ digest_pc' = "send"
                /\ week_events' = top(sort_by_date(r.week_events))
                /\ message' = message_lines(top(sort_by_date(r.week_events)))
    /\ UNCHANGED <<pipeline, similarity, today, digest_calls>>

\* lines 106-119: bot.send_message is called once; its failure is logged
DigestSend ==
    /\ digest_pc = "send"
    /\ digest_calls' = digest_calls + 1
    /\ \E ok \in BOOLEAN : digest_pc' = IF ok THEN "sent" ELSE "send_failed"
    /\ UNCHANGED <<pipeline, similarity, today, week_events, message>>

NextDigest ==
    \/ DigestCollect
    \/ DigestSend

SpecDigest == InitDigestJob /\ [][NextDigest]_vars


(***************************************************************************)
(* Properties.                                                             *)
(***************************************************************************)
Range(seq) == {seq[i] : i \in DOMAIN seq}
Urls(seq) == {seq[i].url : i \in DOMAIN seq}

\* the loop over final_events is at some event
Processing == pc \in {"fetch", "annotate", "decide", "send", "save"}

\* the state that the aggregation of lines 306-330 leaves
AfterAggregation == pc \in {"fetch", "persist"} /\ idx = 1

\* C1: over any sequence of runs, whatever fails, no URL is successfully
\* sent to the channel more than once.
C1_SentAtMostOnce == \A u \in URLs : sent[u] <= 1

\* C2: a candidate whose URL is in the ledger loaded at the start of the run
\* is never put in final_events, and the run never fetches its page, never
\* hands it to the annotator and never calls the publisher for it.
C2_LoadedUrlsAreSkipped ==
    pc # "idle" =>
        \A u \in loaded :
            /\ u \notin Urls(final_events)
            /\ u \notin fetched
            /\ u \notin annotated
            /\ u \notin published

\* a run that found a candidate in its ledger and has gone through the whole
\* work list, with another event processed
C2_Witness ==
    /\ pc = "persist"
    /\ (Urls(tp_events) \cup Urls(gz_events)) \cap loaded # {}
    /\ fetched # {}
    /\ annotated # {}

\* C3: after the aggregation, a GorodZovet candidate that was not in the
\* ledger is out of the work list with its URL in the ledger if its title is
\* similar to the title of some candidate Timepad yielded in this run
\* (skipped ones included); otherwise it is in the work list and its URL is
\* not in the ledger.
C3_DuplicateIffSimilar ==
    AfterAggregation =>
        \A i \in DOMAIN gz_events :
            LET gz == gz_events[i]
                similar == \E j \in DOMAIN tp_events :
                    is_similar(gz.title, tp_events[j].title, DefaultThreshold)
            IN  gz.url \notin loaded =>
                    /\ similar => gz \notin Range(final_events)
                                  /\ gz.url \in processed_events
                    /\ ~similar => gz \in Range(final_events)
                                   /\ gz.url \notin processed_events

\* a new GorodZovet candidate dropped for a Timepad candidate that was itself
\* skipped, its title different from the Timepad title
C3_Witness ==
    /\ AfterAggregation
    /\ \E i \in DOMAIN gz_events, j \in DOMAIN tp_events :
        /\ gz_events[i].url \notin loaded
        /\ tp_events[j].url \in loaded
        /\ gz_events[i].title # tp_events[j].title
        /\ is_similar(gz_events[i].title, tp_events[j].title, DefaultThreshold)
        /\ gz_events[i].url \in processed_events
        /\ final_events = <<>>

\* C4: when the publisher call succeeded for a candidate, the step that ends
\* the candidate's processing leaves exactly one record with its URL in the
\* event store and its URL in the ledger.
C4_SentIsStoredOnce ==
    [][pc = "save" =>
        /\ Cardinality({i \in DOMAIN events_db' : events_db'[i].url = event.url}) = 1
        /\ event.url \in processed_events']_vars


\* the loop over final_events goes on with the event after the current one
\* and nothing persisted or published changes
GoesOnUnchanged ==
    /\ processed_events' = processed_events
    /\ processed_file' = processed_file
    /\ events_db' = events_db
    /\ sent' = sent
    /\ final_events' = final_events
    /\ idx' = idx + 1
    /\ pc' = IF idx < Len(final_events) THEN "fetch" ELSE "persist"

\* the URL had a failed send_message in the run before this one
SendFailedLastRun(u) == send_failed[u] > 0 /\ send_failed[u] = runs - 1

\* C5: when bot.send_message fails for a candidate, neither the ledger nor
\* the event store changes, the run goes on with the next candidate, and in
\* the next run the URL, if it is discovered again, is again in the work list.
C5_FailedSendIsRetried ==
    /\ [][(pc = "send" /\ pc' # "save") => GoesOnUnchanged]_vars
    /\ [](AfterAggregation =>
            \A u \in Urls(tp_events) \cup Urls(gz_events) :
                SendFailedLastRun(u) => u \in Urls(final_events))

\* C5 as amended: the same, for a URL that has not entered the ledger since
\* and that is listed by Timepad or by GorodZovet under a title that no
\* Timepad title of the run is similar to; and nothing is sent for an event
\* that was not fetched and classified in the same run.
C5_FailedSendIsRetriedUnlessResolved ==
    /\ [][(pc = "send" /\ pc' # "save") => GoesOnUnchanged]_vars
    /\ [](AfterAggregation =>
            \A u \in URLs :
                /\ SendFailedLastRun(u)
                /\ u \notin loaded
                /\ \/ u \in Urls(tp_events)
                   \/ \E i \in DOMAIN gz_events :
                        /\ gz_events[i].url = u
                        /\ \A j \in DOMAIN tp_events :
                            ~is_similar(gz_events[i].title, tp_events[j].title,
                                        DefaultThreshold)
                => u \in Urls(final_events))
    /\ [](pc \in {"send", "save"} => event.url \in fetched \cap annotated)

\* the URL whose send failed in the first run is classified again in the second
C5_Witness ==
    /\ pc = "decide"
    /\ runs = 2
    /\ send_failed[event.url] = 1
    /\ ai_response.kind = "dict"

\* C6: an Ignore verdict adds the URL to the ledger, calls no publisher and
\* stores no record, and the URL is not handed to the annotator in any later
\* run.
C6_IgnoredIsFinal ==
    /\ [][(pc = "decide" /\ verdict(ai_response) = "ignore") =>
            /\ event.url \in processed_events'
            /\ events_db' = events_db
            /\ published' = published
            /\ sent' = sent]_vars
    /\ [](\A u \in URLs : (ignored[u] > 0 /\ ignored[u] < runs) => u \notin annotated)

\* C7: when the annotator fails (no API key, or every model of models_to_try
\* raises or returns text that does not parse), the URL does not enter the
\* ledger, nothing is published or stored and the loop goes on with the next
\* candidate, so that a run that reaches line 391 has classified its whole
\* work list; a failed page fetch leaves the candidate in place with an empty
\* full_text and the annotator is called for it.
C7_AnnotatorFailureIsSkipped ==
    /\ [][(pc = "decide" /\ ai_response = None) =>
            GoesOnUnchanged /\ published' = published]_vars
    /\ [][pc = "fetch" =>
            /\ pc' = "annotate"
            /\ idx' = idx
            /\ final_events' = final_events
            /\ full_text' \in {"", "page"}]_vars
    /\ [](pc = "decide" => event.url \in annotated)
    /\ [](pc = "persist" => Urls(final_events) \subseteq annotated)

\* the three models failed for an event whose page could not be fetched, and
\* another event waits behind it
C7_Witness ==
    /\ pc = "decide"
    /\ GEMINI_API_KEY
    /\ ai_response = None
    /\ full_text = ""
    /\ idx < Len(final_events)

MissingCredentials == ~TELEGRAM_TOKEN \/ ~CHANNEL_ID \/ ~GEMINI_API_KEY

\* C8: with TELEGRAM_TOKEN, CHANNEL_ID or GEMINI_API_KEY unset the run does
\* nothing: no source is scraped, no page is fetched, nothing is published,
\* and neither the ledger nor its file changes.
C8_NoWorkWithoutCredentials ==
    /\ [](MissingCredentials =>
            /\ scraped = {}
            /\ fetched = {}
            /\ published = {}
            /\ processed_events = loaded)
    /\ [][MissingCredentials => processed_file' = processed_file]_vars

\* C9: an error raised while one candidate is processed does not end the
\* run, and a run that got as far as the work list ends with the ledger of
\* the run written to its file.
C9_ErrorsAreContained ==
    [][/\ Processing => pc' # "idle"
       /\ (pc \notin {"idle", "scrape"} /\ pc' = "idle") =>
            processed_file' = processed_events]_vars

\* C10: when a run is interrupted while a candidate is processed, the ledger
\* file holds the URLs that the run had added to the ledger before (posted,
\* ignored, duplicate).
C10_InterruptKeepsFinalized ==
    [][(Processing /\ pc' = "idle") =>
        processed_events \subseteq processed_file']_vars

\* C11: the text handed to the publisher is at most 4096 characters long; a
\* post text longer than 4096 is sent as exactly 4096 characters ending
\* with "...", and a post text of 4096 characters or fewer is sent as it is.
C11_SentTextIsCut ==
    pc = "save" =>
        LET original == ai_response.post_text
        IN  /\ content.len <= MaxMessage
            /\ original.len > MaxMessage =>
                    content.len = MaxMessage /\ content.dots
            /\ original.len <= MaxMessage => content = original

\* a post text one character over the limit has been sent
C11_Witness ==
    /\ pc = "save"
    /\ ai_response.post_text.len = MaxMessage + 1
    /\ sent[event.url] = 1

\* C12: is_similar called on two character-identical titles (two empty
\* titles included) at any threshold up to 1.0 returns true.
C12_IdenticalIsSimilar ==
    /\ similarity.called
    /\ similarity.title1 = similarity.title2
    /\ similarity.threshold <= 100
    => similarity.result

\* C12 as the code has it: true at every threshold below 1.0 (the ratio of
\* identical titles is 1.0 and line 88 asks for a ratio above the threshold)
C12_IdenticalIsSimilarBelowOne ==
    /\ similarity.called
    /\ similarity.title1 = similarity.title2
    /\ similarity.threshold < 100
    => similarity.result

\* two empty titles were found similar at threshold 0.99
C12_Witness ==
    /\ similarity.called
    /\ similarity.title1 = <<>>
    /\ similarity.title2 = <<>>
    /\ similarity.threshold = 99
    /\ similarity.result

\* C13: within a run the ledger in memory never loses a URL, and the ledger
\* file never loses a URL: what a run persists at its end contains every
\* URL the file held before.
C13_LedgerOnlyGrows ==
    [][/\ (pc # "idle" /\ pc' # "idle") => processed_events \subseteq processed_events'
       /\ processed_file \subseteq processed_file']_vars

\* the second run has persisted a ledger with a URL of the first run and a
\* URL of its own
C13_Witness ==
    /\ pc = "idle"
    /\ runs = 2
    /\ \E u1 \in processed_file, u2 \in processed_file :
        ignored[u1] = 1 /\ ignored[u2] = 2

\* C14: no two records of the event store share a URL, and a record once in
\* the store is never changed: a save for a stored URL leaves the file as it
\* is, and a save for a new URL appends one record.
C14_StoreIsAppendOnly ==
    /\ [](\A i, j \in DOMAIN events_db :
            i # j => events_db[i].url # events_db[j].url)
    /\ [][\/ events_db' = events_db
          \/ \E r \in Range(events_db') :
                /\ r.url \notin StoredUrls(events_db)
                /\ events_db' = Append(events_db, r)]_vars

\* a URL stored by the first run was sent again by the second run, whose
\* save left the record of the first run
C14_Witness ==
    /\ pc = "persist"
    /\ runs = 2
    /\ \E u \in processed_events \ loaded :
        /\ sent[u] = 2
        /\ \E i \in DOMAIN events_db :
            events_db[i].url = u /\ events_db[i].created_at = 1

\* the digest job has ended
DigestEnded ==
    digest_pc \in {"no_credentials", "crashed", "no_events", "sent", "send_failed"}

\* the records of the store whose date is a day of the week of today
InWindow ==
    {i \in DOMAIN events_db :
        LET parsed == strptime(events_db[i].date)
            monday == CHOOSE d \in (today - 6)..today : weekday(d) = 0
        IN  /\ events_db[i].date.kind = "str"
            /\ parsed.raises = "none"
            /\ monday <= parsed.date
            /\ parsed.date <= monday + 6}

InWindowUrls == {events_db[i].url : i \in InWindow}

\* the date a line of the message shows
LineDate(line) == toordinal(line.date_str.month, line.date_str.day)

\* C15: whatever the store holds and whatever day it is, the digest lists
\* the first 10 at most, by ascending date, of the events with distinct URLs
\* whose date is in the Monday-to-Sunday week of today; an event with no
\* date, with a date that cannot be parsed or with a date outside the week
\* is not listed.
C15_DigestListsTheWeek ==
    (DigestEnded /\ TELEGRAM_TOKEN /\ CHANNEL_ID) =>
        /\ InWindowUrls # {} => digest_pc \in {"sent", "send_failed"}
        /\ Len(message) = Min2(TopEvents, Cardinality(InWindowUrls))
        /\ \A k \in DOMAIN message :
            \E i \in InWindow :
                /\ events_db[i].url = message[k].url
                /\ strptime(events_db[i].date).date = LineDate(message[k])
        /\ \A k, l \in DOMAIN message :
            /\ k # l => message[k].url # message[l].url
            /\ k < l => LineDate(message[k]) <= LineDate(message[l])
        /\ \A i \in InWindow :
            (\A k \in DOMAIN message : message[k].url # events_db[i].url) =>
                \A k \in DOMAIN message :
                    LineDate(message[k]) <= strptime(events_db[i].date).date

\* C16: with no stored event in the week of today the digest job calls the
\* publisher not once and ends normally; no digest run changes the store
\* and none calls the publisher more than once.
C16_EmptyWeekSendsNothing ==
    /\ []((DigestEnded /\ TELEGRAM_TOKEN /\ CHANNEL_ID /\ InWindowUrls = {}) =>
            (digest_calls = 0 /\ digest_pc # "crashed"))
    /\ [](digest_calls <= 1)
    /\ [][events_db' = events_db]_vars

\* an answer that is one of the two verdicts: an object whose action is
\* IGNORE, or whose action is POST with a post text
ValidVerdict(response) ==
    /\ response.kind = "dict"
    /\ \/ response.action = "IGNORE"
       \/ response.action = "POST" /\ response.post_text.len > 0

\* C17: an annotator answer that is not one of the two verdicts (its action
\* missing or neither IGNORE nor POST) is a failure: the publisher is not
\* called for the candidate, nothing is stored and its URL does not enter
\* the ledger.
C17_MalformedAnswerIsFailure ==
    [][(pc = "decide" /\ ~ValidVerdict(ai_response)) =>
            /\ pc' # "send"
            /\ events_db' = events_db
            /\ event.url \in processed_events' => event.url \in processed_events]_vars

\* C18: generate_post_content asks the models in their order and returns
\* the answer of the first model whose answer is a valid verdict; a model
\* that fails or whose answer is no valid verdict makes the next model be
\* asked; the result is None only when every model has been asked.
C18_FirstValidVerdictWins ==
    [][/\ (pc = "annotate" /\ pc' = "annotate") => model_i' = model_i + 1
       /\ (pc = "annotate" /\ GEMINI_API_KEY /\ pc' = "decide") =>
            \/ ValidVerdict(ai_response')
            \/ ai_response' = None /\ model_i = NumModels]_vars

\* C19: within a run, whatever the two scrapers return (the same URL from
\* both under titles that are not similar included), the publisher is
\* called at most once per URL, and no page fetch and no annotator call is
\* started for a URL that is in the ledger in memory.
C19_OncePerUrlInARun ==
    /\ pc = "send" => event.url \notin published
    /\ pc \in {"fetch", "annotate"} => event.url \notin processed_events

\* the candidates of a run that the ledger and the title comparison let through
TimepadSurvivors == SelectSeq(tp_events, LAMBDA e : e.url \notin loaded)
GorodZovetSurvivors ==
    SelectSeq(gz_events, LAMBDA e :
        /\ e.url \notin loaded
        /\ \A j \in DOMAIN tp_events :
            ~is_similar(e.title, tp_events[j].title, DefaultThreshold))

\* the URLs of the first n events of the work list
Handled(n) == {final_events[i].url : i \in 1..n}

\* C20: the work list is the surviving Timepad candidates in the order
\* Timepad listed them, followed by the surviving GorodZovet candidates in
\* the order GorodZovet listed them; the candidates are fetched, classified
\* and committed in that order, each one finished before the next begins.
C20_WorkListOrder ==
    /\ [](pc \in {"fetch", "annotate", "decide", "send", "save", "persist"} =>
            final_events = TimepadSurvivors \o GorodZovetSurvivors)
    /\ [](Processing =>
            /\ idx \in DOMAIN final_events
            /\ fetched = Handled(IF pc = "fetch" THEN idx - 1 ELSE idx)
            /\ annotated \in {Handled(idx - 1), Handled(idx)}
            /\ pc \in {"decide", "send", "save"} => annotated = Handled(idx)
            /\ pc = "fetch" => annotated = Handled(idx - 1)
            /\ published \subseteq Handled(IF pc = "save" THEN idx ELSE idx - 1))
    /\ [](pc = "persist" => fetched = Handled(Len(final_events)))
    /\ [][(Processing /\ pc' # "idle") =>
            /\ final_events' = final_events
            /\ \/ idx' = idx
               \/ /\ idx' = idx + 1
                  /\ pc \in {"decide", "send", "save"}
                  /\ pc' \in {"fetch", "persist"}]_vars

\* a run with a Timepad event and a GorodZovet event in its work list is at
\* the commit of the second
C20_Witness ==
    /\ pc = "save"
    /\ idx = 2
    /\ final_events[1].source = "timepad"
    /\ final_events[2].source = "gorodzovet"
    /\ fetched = {final_events[1].url, final_events[2].url}

\* C21: when a run has ended, however it ended, every URL that has a record
\* in the event store is in the ledger file, and every URL that has a record
\* in the event store was sent to the channel with success.
C21_StoredIsInLedgerAndSent ==
    (pc = "idle" /\ runs > 0) =>
        /\ StoredUrls(events_db) \subseteq processed_file
        /\ \A u \in StoredUrls(events_db) : sent[u] >= 1

\* the collaborators have succeeded for the URL in this run: the annotator
\* gave a valid verdict, and for a POST verdict the publisher call returned
Succeeded(u) ==
    /\ Processing
    /\ event.url = u
    /\ ValidVerdict(ai_response)
    /\ \/ pc = "decide" /\ ai_response.action = "IGNORE"
       \/ pc = "save"

\* a collaborator has failed for the URL in this run: the annotator gave no
\* valid verdict, the publisher call raised, or the write of the event
\* store raised after the publisher call
Failed(u) ==
    \/ /\ pc = "decide"
       /\ event.url = u
       /\ ~ValidVerdict(ai_response)
    \/ /\ pc # "idle"
       /\ send_failed[u] = runs
    \/ /\ sent[u] > 0
       /\ u \notin StoredUrls(events_db)
       /\ ~(pc = "save" /\ event.url = u)

\* C22: a URL that is discovered and handled with success again and again
\* (the annotator returns a valid verdict, the publisher succeeds), with no
\* failure of its collaborators from some run on, is in the ledger from
\* some time on, and a URL that is in the ledger is processed in no run: no
\* candidate is retried forever once its collaborators succeed.
C22_EventuallyInLedger ==
    /\ \A u \in URLs :
        ([]<>Succeeded(u) /\ <>[]~Failed(u)) => <>[](u \in processed_file)
    /\ [](\A u \in processed_file :
            u \notin fetched /\ u \notin annotated /\ u \notin published)

====
